---- MODULE Spec2Model ----
(***************************************************************************)
(* Normalization engine of nobel-prize-api-data-engineering.py:            *)
(*   extract_nested_value   (lines 105-113)  the dot-path resolver         *)
(*   normalize_to_dataframe (lines 137-180)  the JSON-to-table flattener   *)
(*                                                                         *)
(* Python values are tagged records [t |-> type, v |-> payload]:           *)
(*   None, nan, int, bool, str, list, dict.                                *)
(* A str is a sequence of pieces (each piece a TLA+ string); the str is    *)
(* the concatenation of its pieces and "." is a piece of its own, so that  *)
(* split('.') and the substring test of `in` are computed, not assumed.    *)
(* A dict is a function from its keys (TLA+ strings) to values.            *)
(***************************************************************************)
EXTENDS Integers, Sequences, FiniteSets

VARIABLES
    pc,         \* position in the running function
    data, path, default, ret,   \* extract_nested_value: arguments and outcome
    payload,    \* normalize_to_dataframe: the argument as passed by the caller
    json_data,  \* the local name json_data (rebound to the collection, lines 141, 157)
    rows,       \* the list rows
    origin,     \* for each element of rows, <<record index, embedded entry index or 0>>
    i,          \* index of the record the outer loop is at
    row,        \* the base row of the prize being expanded
    j,          \* index of the embedded laureate the inner loop is at
    frame       \* the DataFrame returned

vars == <<pc, data, path, default, ret, payload, json_data, rows, origin, i, row, j, frame>>

resolverVars == <<data, path, default, ret>>

normalizerVars == <<payload, json_data, rows, origin, i, row, j, frame>>

-----------------------------------------------------------------------------
(* Python values *)

None == [t |-> "None"]

nan == [t |-> "nan"]

PyInt(n) == [t |-> "int", v |-> n]

PyBool(b) == [t |-> "bool", v |-> b]

PyStr(pieces) == [t |-> "str", v |-> pieces]

PyList(s) == [t |-> "list", v |-> s]

PyDict(f) == [t |-> "dict", v |-> f]

EmptyDict == PyDict([k \in {} |-> None])

\* concatenation of the pieces s[a..b] into one key string
RECURSIVE Concat(_, _, _)
Concat(s, a, b) == IF a > b THEN "" ELSE s[a] \o Concat(s, a + 1, b)

\* a str literal of one piece
Lit(s) == PyStr(<<s>>)

\* the key string a str value spells
KeyOf(x) == Concat(x.v, 1, Len(x.v))

\* str.split('.'): the pieces between the "." pieces, empty segments kept
RECURSIVE SplitFrom(_, _, _, _)
SplitFrom(p, k, acc, cur) ==
    IF k > Len(p) THEN Append(acc, cur)
    ELSE IF p[k] = "." THEN SplitFrom(p, k + 1, Append(acc, cur), "")
    ELSE SplitFrom(p, k + 1, acc, cur \o p[k])

split(p) == SplitFrom(p, 1, <<>>, "")

\* `key in s` for a str s: substring test
IsSubstring(key, s) ==
    \/ key = ""
    \/ \E a \in 1..Len(s) : \E b \in a..Len(s) : Concat(s, a, b) = key

\* `key in current` (line 109): "yes", "no" or "TypeError"
PyIn(key, current) ==
    CASE current.t = "dict" -> IF key \in DOMAIN current.v THEN "yes" ELSE "no"
      [] current.t = "str"  -> IF IsSubstring(key, current.v) THEN "yes" ELSE "no"
      [] current.t = "list" ->
            IF \E k \in 1..Len(current.v) :
                   current.v[k].t = "str" /\ KeyOf(current.v[k]) = key
            THEN "yes" ELSE "no"
      [] OTHER -> "TypeError"

Return(v) == [kind |-> "return", val |-> v]

Raise == [kind |-> "raise", val |-> [t |-> "TypeError"]]

\* the loop of lines 108-113 from the k-th key on
RECURSIVE Walk(_, _, _, _)
Walk(current, keys, k, dflt) ==
    IF k > Len(keys) THEN Return(current)
    ELSE LET m == PyIn(keys[k], current) IN
         IF m = "TypeError" THEN Raise
         ELSE IF m = "yes"
              THEN IF current.t = "dict"
                   THEN Walk(current.v[keys[k]], keys, k + 1, dflt)
                   ELSE Raise    \* str or list indexed by a str
              ELSE Return(dflt)

\* Python truthiness of a value
Falsy(x) ==
    \/ x.t = "None"
    \/ x.t = "int" /\ x.v = 0
    \/ x.t = "bool" /\ x.v = FALSE
    \/ x.t \in {"str", "list"} /\ Len(x.v) = 0
    \/ x.t = "dict" /\ DOMAIN x.v = {}

\* faulty variant: `return current or default`
extract_nested_value_or_default(d, p, dflt) ==
    LET r == Walk(d, split(p), 1, dflt)
    IN  IF r.kind = "return" /\ Falsy(r.val) THEN Return(dflt) ELSE r

extract_nested_value(d, p, dflt) == Walk(d, split(p), 1, dflt)

-----------------------------------------------------------------------------
(* Inputs of the resolver *)

MaxDepth == 3

MaxPathLen == 5

Keys == {"a", "en"}

Pieces == {"a", "en", "."}

Leaves == { None, PyInt(0), PyBool(FALSE), PyStr(<<>>), PyStr(<<"Swed", "en">>),
            PyList(<<Lit("en")>>) }

RECURSIVE Values(_)
Values(n) ==
    IF n = 0 THEN Leaves \cup {EmptyDict}
    ELSE Leaves \cup {EmptyDict}
         \cup { PyDict([k \in {key} |-> x]) : key \in Keys, x \in Values(n - 1) }

Paths == UNION { [1..n -> Pieces] : n \in 0..MaxPathLen }

Defaults == { nan, Lit("d") }

-----------------------------------------------------------------------------
(* The resolver called on one input *)

InitResolve ==
    /\ pc = "call"
    /\ data \in Values(MaxDepth)
    /\ path \in Paths
    /\ default \in Defaults
    /\ ret = None
    /\ payload = EmptyDict
    /\ json_data = EmptyDict
    /\ rows = <<>>
    /\ origin = <<>>
    /\ i = 0
    /\ row = None
    /\ j = 0
    /\ frame = None

CallResolve ==
    /\ pc = "call"
    /\ ret' = extract_nested_value(data, path, default)
    /\ pc' = IF ret'.kind = "raise" THEN "raised" ELSE "returned"
    /\ UNCHANGED <<data, path, default>>
    /\ UNCHANGED normalizerVars

NextResolve == CallResolve

SpecResolve == InitResolve /\ [][NextResolve]_vars

-----------------------------------------------------------------------------
(* Properties of the resolver *)

\* the value k segments down from r, when every step so far was a dict holding its segment
RECURSIVE Reach(_, _, _)
Reach(r, segs, k) == IF k = 0 THEN r ELSE Reach(r, segs, k - 1).v[segs[k]]

\* the first k segments are each present in a dict at their step
RECURSIVE Resolves(_, _, _)
Resolves(r, segs, k) ==
    \/ k = 0
    \/ /\ Resolves(r, segs, k - 1)
       /\ Reach(r, segs, k - 1).t = "dict"
       /\ segs[k] \in DOMAIN Reach(r, segs, k - 1).v

Segments == split(path)

FullyResolves == Resolves(data, Segments, Len(Segments))

Called == pc \in {"returned", "raised"}

\* C1: for a record (a dict), when some segment is absent from the current
\* structure, or the current structure is None or another non-dict value before
\* the path is finished, extract_nested_value returns the default and does not raise.
C1_UnresolvedYieldsDefault ==
    (Called /\ data.t = "dict" /\ ~FullyResolves) => ret = Return(default)

\* C7: when every segment of the path is present in a dict at its step,
\* extract_nested_value returns exactly the value stored at the end of the
\* path, falsy or not; the default is returned only when the path does not resolve.
C7_ResolvedYieldsTerminal ==
    (Called /\ FullyResolves) => ret = Return(Reach(data, Segments, Len(Segments)))

\* a path of two or more segments resolved down to a falsy value other than the default
C7_Witness ==
    /\ pc = "returned"
    /\ Len(Segments) >= 2
    /\ FullyResolves
    /\ Falsy(Reach(data, Segments, Len(Segments)))
    /\ ret.val = Reach(data, Segments, Len(Segments))
    /\ ret.val # default

-----------------------------------------------------------------------------
(* normalize_to_dataframe: row construction *)

\* d.get(key) on a dict
get(d, key) == IF key \in DOMAIN d.v THEN d.v[key] ELSE None

\* d.get(key) if key in d else np.nan
get_or_nan(d, key) == IF key \in DOMAIN d.v THEN d.v[key] ELSE nan

\* the start of `for x in c`: the elements of a list; None and numbers are not iterable
iter(c) ==
    CASE c.t = "list" -> Return(c.v)
      [] c.t \in {"None", "int", "bool", "nan"} -> Raise

\* a dict display whose values are evaluated in order: the first raise propagates
Collect(cells) ==
    IF \E c \in DOMAIN cells : cells[c].kind = "raise" THEN Raise
    ELSE Return([c \in DOMAIN cells |-> cells[c].val])

\* lines 143-153
LaureateRow(laureate) ==
    Collect([
        laureate_id      |-> Return(get(laureate, "id")),
        known_name       |-> extract_nested_value(laureate, <<"knownName", ".", "en">>, nan),
        gender           |-> Return(get_or_nan(laureate, "gender")),
        birth_date       |-> extract_nested_value(laureate, <<"birth", ".", "date">>, nan),
        born_city        |-> extract_nested_value(laureate,
                                <<"birth", ".", "place", ".", "city", ".", "en">>, nan),
        born_country     |-> extract_nested_value(laureate,
                                <<"birth", ".", "place", ".", "country", ".", "en">>, nan),
        born_country_now |-> extract_nested_value(laureate,
                                <<"birth", ".", "place", ".", "countryNow", ".", "en">>, nan),
        continent        |-> extract_nested_value(laureate,
                                <<"birth", ".", "place", ".", "continent", ".", "en">>, nan),
        death_date       |-> extract_nested_value(laureate, <<"death", ".", "date">>, nan) ])

\* lines 159-166
PrizeRow(nobel_prize) ==
    Collect([
        year                  |-> Return(get_or_nan(nobel_prize, "awardYear")),
        category              |-> extract_nested_value(nobel_prize, <<"category", ".", "en">>, nan),
        date_awarded          |-> Return(get_or_nan(nobel_prize, "dateAwarded")),
        prize_amount          |-> Return(get_or_nan(nobel_prize, "prizeAmount")),
        prize_amount_adjusted |-> Return(get_or_nan(nobel_prize, "prizeAmountAdjusted")),
        top_motivation        |-> extract_nested_value(nobel_prize,
                                     <<"topMotivation", ".", "en">>, nan) ])

\* lines 171-175: the dict passed to update
LaureateFields(nobel_prize_laureate) ==
    Collect([
        laureate_id |-> Return(get(nobel_prize_laureate, "id")),
        motivation  |-> extract_nested_value(nobel_prize_laureate,
                           <<"motivation", ".", "en">>, nan),
        portion     |-> extract_nested_value(nobel_prize_laureate, <<"portion">>, nan) ])

\* lines 170-171: new_row = row.copy(); new_row.update(fields)
copy_update(base, fields) ==
    [c \in DOMAIN base \cup DOMAIN fields |->
        IF c \in DOMAIN fields THEN fields[c] ELSE base[c]]

\* faulty variant: rows.insert(0, x)
append_front(list, x) == <<x>> \o list

\* rows.append(x)
append(list, x) == Append(list, x)

(* pd.DataFrame(rows) for a list of dicts (line 180): the columns are the     *)
(* union of the rows' keys, a key a row lacks is filled with nan, and a       *)
(* column holding only numbers, nan and None (and at least one number or nan) *)
(* becomes a float column, its None turned into nan.  The order of the        *)
(* columns is not modelled.                                                   *)
Columns(rs) == UNION { DOMAIN rs[k] : k \in 1..Len(rs) }

Cell(rs, k, c) == IF c \in DOMAIN rs[k] THEN rs[k][c] ELSE nan

FloatColumn(rs, c) ==
    /\ \A k \in 1..Len(rs) : Cell(rs, k, c).t \in {"int", "nan", "None"}
    /\ \E k \in 1..Len(rs) : Cell(rs, k, c).t \in {"int", "nan"}

DataFrame(rs) ==
    [ columns |-> Columns(rs),
      data    |-> [k \in 1..Len(rs) |->
                    [c \in Columns(rs) |->
                        IF FloatColumn(rs, c) /\ Cell(rs, k, c).t = "None"
                        THEN nan ELSE Cell(rs, k, c)]] ]

-----------------------------------------------------------------------------
(* Inputs of the normalizer *)

MaxRecords == 2

MaxLaureates == 2

Seqs(S, n) == UNION { [1..k -> S] : k \in 0..n }

En(s) == PyDict([en |-> Lit(s)])

\* the laureate record of the specification's example
Curie ==
    PyDict([ id        |-> Lit("1"),
             knownName |-> En("Marie Curie"),
             birth     |-> PyDict([ date  |-> Lit("1867-11-07"),
                                    place |-> PyDict([city |-> En("Warsaw")]) ]) ])

Roentgen ==
    PyDict([ id        |-> Lit("2"),
             knownName |-> En("Wilhelm Conrad Roentgen"),
             gender    |-> Lit("male"),
             birth     |-> PyDict([ date  |-> Lit("1845-03-27"),
                                    place |-> PyDict([ city       |-> En("Lennep"),
                                                       country    |-> En("Prussia"),
                                                       countryNow |-> En("Germany"),
                                                       continent  |-> En("Europe") ]) ]),
             death     |-> PyDict([date |-> Lit("1923-02-10")]) ])

\* an organisation: no birth, an empty gender, a date that is a plain string
RedCross ==
    PyDict([ id     |-> Lit("482"),
             gender |-> PyStr(<<>>),
             death  |-> Lit("n/a") ])

\* a numeric id and nothing else
NumericId == PyDict([id |-> PyInt(7)])

\* the JSON null where a mapping is expected
BirthNull == PyDict([id |-> Lit("3"), knownName |-> En("Anon"), birth |-> None])

\* a name given as a plain string, one that contains the segment "en"
PlainName == PyDict([id |-> Lit("6"), knownName |-> PyStr(<<"Niels", "en">>)])

LaureateRecords == { Curie, Roentgen, RedCross, NumericId, BirthNull, PlainName, EmptyDict }

Physics1903 ==
    PyDict([ awardYear           |-> Lit("1903"),
             category            |-> En("Physics"),
             dateAwarded         |-> Lit("1903-11-12"),
             prizeAmount         |-> PyInt(141358),
             prizeAmountAdjusted |-> PyInt(8567159),
             topMotivation       |-> En("radiation") ])

Peace1916 == PyDict([awardYear |-> Lit("1916")])

\* the JSON null where a mapping is expected
CategoryNull == PyDict([awardYear |-> Lit("1917"), category |-> None])

Becquerel ==
    PyDict([id |-> Lit("4"), motivation |-> En("spontaneous radioactivity"), portion |-> Lit("1/2")])

PierreCurie ==
    PyDict([id |-> Lit("5"), motivation |-> En("radiation phenomena"), portion |-> Lit("1/2")])

\* the JSON null where a mapping is expected
MotivationNull == PyDict([id |-> Lit("6"), motivation |-> None, portion |-> Lit("1/3")])

Entries == { Becquerel, PierreCurie, EmptyDict }

\* embedded laureate lists: no entry twice
EntryLists ==
    { l \in Seqs(Entries, MaxLaureates) :
        \A a, b \in 1..Len(l) : a # b => l[a] # l[b] }

WithLaureates(prize, l) ==
    PyDict([k \in DOMAIN prize.v \cup {"laureates"} |->
               IF k = "laureates" THEN PyList(l) ELSE prize.v[k]])

PrizeRecords ==
    { Physics1903, Peace1916, CategoryNull, WithLaureates(CategoryNull, <<Becquerel>>),
      WithLaureates(Physics1903, <<Becquerel, MotivationNull>>) }
    \cup { WithLaureates(prize, l) : prize \in {Physics1903, Peace1916}, l \in EntryLists }

Payloads ==
    { EmptyDict,
      PyDict([meta |-> PyDict([count |-> PyInt(1004)])]),
      PyDict([laureates |-> None]),
      PyDict([laureates |-> PyList(<<Curie>>), nobelPrizes |-> PyList(<<Physics1903>>)]) }
    \cup { PyDict([laureates |-> PyList(s)]) : s \in Seqs(LaureateRecords, MaxRecords) }
    \cup { PyDict([nobelPrizes |-> PyList(s)]) : s \in Seqs(PrizeRecords, MaxRecords) }

-----------------------------------------------------------------------------
(* normalize_to_dataframe called on one payload *)

Init ==
    /\ pc = "start"
    /\ payload \in Payloads
    /\ json_data = payload
    /\ rows = <<>>
    /\ origin = <<>>
    /\ i = 0
    /\ row = None
    /\ j = 0
    /\ frame = None
    /\ data = None
    /\ path = <<>>
    /\ default = nan
    /\ ret = None

\* lines 139-142: the laureates key is present; json_data is rebound and the loop entered
DetectLaureates ==
    /\ pc = "start"
    /\ PyIn("laureates", json_data) = "yes"
    /\ json_data' = get(json_data, "laureates")
    /\ IF iter(json_data').kind = "raise"
       THEN pc' = "raised" /\ i' = i
       ELSE pc' = "laureates" /\ i' = 1
    /\ UNCHANGED <<payload, rows, origin, row, j, frame>>
    /\ UNCHANGED resolverVars

\* lines 155-158: no laureates key, the nobelPrizes key is present
DetectNobelPrizes ==
    /\ pc = "start"
    /\ PyIn("laureates", json_data) = "no"
    /\ PyIn("nobelPrizes", json_data) = "yes"
    /\ json_data' = get(json_data, "nobelPrizes")
    /\ IF iter(json_data').kind = "raise"
       THEN pc' = "raised" /\ i' = i
       ELSE pc' = "nobelPrizes" /\ i' = 1
    /\ UNCHANGED <<payload, rows, origin, row, j, frame>>
    /\ UNCHANGED resolverVars

\* faulty variant: `else:` in place of `elif`, the prize branch taken without its key
DetectNeither_NoElif ==
    /\ pc = "start"
    /\ PyIn("laureates", json_data) = "no"
    /\ PyIn("nobelPrizes", json_data) = "no"
    /\ json_data' = get(json_data, "nobelPrizes")
    /\ IF iter(json_data').kind = "raise"
       THEN pc' = "raised" /\ i' = i
       ELSE pc' = "nobelPrizes" /\ i' = 1
    /\ UNCHANGED <<payload, rows, origin, row, j, frame>>
    /\ UNCHANGED resolverVars

\* lines 139, 155: neither key
DetectNeither ==
    /\ pc = "start"
    /\ PyIn("laureates", json_data) = "no"
    /\ PyIn("nobelPrizes", json_data) = "no"
    /\ pc' = "return"
    /\ UNCHANGED <<payload, json_data, rows, origin, i, row, j, frame>>
    /\ UNCHANGED resolverVars

\* lines 142-154: one laureate record
LaureateStep ==
    /\ pc = "laureates"
    /\ i <= Len(json_data.v)
    /\ LET r == LaureateRow(json_data.v[i]) IN
       IF r.kind = "raise"
       THEN pc' = "raised" /\ UNCHANGED <<rows, origin, i>>
       ELSE /\ rows' = append(rows, r.val)
            /\ origin' = append(origin, <<i, 0>>)
            /\ i' = i + 1
            /\ pc' = pc
    /\ UNCHANGED <<payload, json_data, row, j, frame>>
    /\ UNCHANGED resolverVars

\* lines 158-168, 177-178: the base row of one prize; appended when the prize has no laureates key
PrizeStep ==
    /\ pc = "nobelPrizes"
    /\ i <= Len(json_data.v)
    /\ LET nobel_prize == json_data.v[i]
           r == PrizeRow(nobel_prize)
       IN  IF r.kind = "raise"
           THEN pc' = "raised" /\ UNCHANGED <<rows, origin, i, row, j>>
           ELSE IF PyIn("laureates", nobel_prize) = "yes"
           THEN /\ row' = r.val
                /\ IF iter(get(nobel_prize, "laureates")).kind = "raise"
                   THEN pc' = "raised" /\ j' = j
                   ELSE pc' = "expand" /\ j' = 1
                /\ UNCHANGED <<rows, origin, i>>
           ELSE /\ row' = r.val
                /\ rows' = append(rows, r.val)
                /\ origin' = append(origin, <<i, 0>>)
                /\ i' = i + 1
                /\ pc' = pc
                /\ j' = j
    /\ UNCHANGED <<payload, json_data, frame>>
    /\ UNCHANGED resolverVars

\* lines 169-176: one embedded laureate of the prize at i
ExpandStep ==
    /\ pc = "expand"
    /\ j <= Len(get(json_data.v[i], "laureates").v)
    /\ LET nobel_prize_laureate == get(json_data.v[i], "laureates").v[j]
           f == LaureateFields(nobel_prize_laureate)
       IN  IF f.kind = "raise"
           THEN pc' = "raised" /\ UNCHANGED <<rows, origin, j>>
           ELSE /\ rows' = append(rows, copy_update(row, f.val))
                /\ origin' = append(origin, <<i, j>>)
                /\ j' = j + 1
                /\ pc' = pc
    /\ UNCHANGED <<payload, json_data, i, row, frame>>
    /\ UNCHANGED resolverVars

\* line 169: the embedded list is exhausted, on to the next prize
ExpandEnd ==
    /\ pc = "expand"
    /\ j > Len(get(json_data.v[i], "laureates").v)
    /\ i' = i + 1
    /\ pc' = "nobelPrizes"
    /\ UNCHANGED <<payload, json_data, rows, origin, row, j, frame>>
    /\ UNCHANGED resolverVars

\* lines 142, 158: the collection is exhausted
LoopEnd ==
    /\ pc \in {"laureates", "nobelPrizes"}
    /\ i > Len(json_data.v)
    /\ pc' = "return"
    /\ UNCHANGED <<payload, json_data, rows, origin, i, row, j, frame>>
    /\ UNCHANGED resolverVars

\* line 180
ReturnFrame ==
    /\ pc = "return"
    /\ frame' = DataFrame(rows)
    /\ pc' = "done"
    /\ UNCHANGED <<payload, json_data, rows, origin, i, row, j>>
    /\ UNCHANGED resolverVars

Next ==
    \/ DetectLaureates
    \/ DetectNobelPrizes
    \/ DetectNeither
    \/ LaureateStep
    \/ PrizeStep
    \/ ExpandStep
    \/ ExpandEnd
    \/ LoopEnd
    \/ ReturnFrame

Spec == Init /\ [][Next]_vars

-----------------------------------------------------------------------------
(* Properties of the normalizer *)

Shape ==
    IF "laureates" \in DOMAIN payload.v THEN "laureates"
    ELSE IF "nobelPrizes" \in DOMAIN payload.v THEN "nobelPrizes"
    ELSE "none"

\* the payload holds a sequence of records under its recognized key
HasRecords == Shape # "none" /\ payload.v[Shape].t = "list"

Records == payload.v[Shape].v

HasList(prize) == "laureates" \in DOMAIN prize.v

Embedded(prize) == IF HasList(prize) THEN prize.v["laureates"].v ELSE <<>>

Returned == pc = "done"

Terminated == pc \in {"done", "raised"}

PrizeColumns ==
    {"year", "category", "date_awarded", "prize_amount", "prize_amount_adjusted",
     "top_motivation"}

LaureateSpecific == {"laureate_id", "motivation", "portion"}

LaureateColumns ==
    {"laureate_id", "known_name", "gender", "birth_date", "born_city", "born_country",
     "born_country_now", "continent", "death_date"}

\* the segments each column is read from
LaureateSource ==
    [ laureate_id      |-> <<"id">>,
      known_name       |-> <<"knownName", "en">>,
      gender           |-> <<"gender">>,
      birth_date       |-> <<"birth", "date">>,
      born_city        |-> <<"birth", "place", "city", "en">>,
      born_country     |-> <<"birth", "place", "country", "en">>,
      born_country_now |-> <<"birth", "place", "countryNow", "en">>,
      continent        |-> <<"birth", "place", "continent", "en">>,
      death_date       |-> <<"death", "date">> ]

PrizeSource ==
    [ year                  |-> <<"awardYear">>,
      category              |-> <<"category", "en">>,
      date_awarded          |-> <<"dateAwarded">>,
      prize_amount          |-> <<"prizeAmount">>,
      prize_amount_adjusted |-> <<"prizeAmountAdjusted">>,
      top_motivation        |-> <<"topMotivation", "en">> ]

EntrySource ==
    [ laureate_id |-> <<"id">>,
      motivation  |-> <<"motivation", "en">>,
      portion     |-> <<"portion">> ]

\* some segment is missing from the dict reached at its step
KeyAbsent(rec, segs) ==
    \E k \in 1..Len(segs) :
        /\ Resolves(rec, segs, k - 1)
        /\ Reach(rec, segs, k - 1).t = "dict"
        /\ segs[k] \notin DOMAIN Reach(rec, segs, k - 1).v

Present(rec, segs) == Resolves(rec, segs, Len(segs))

Stored(rec, segs) == Reach(rec, segs, Len(segs))

\* the positions in the table of the rows built from record k
RowsOf(k) == { n \in 1..Len(origin) : origin[n][1] = k }

\* the origins of the rows in processing order: record by record, and within a
\* prize entry by entry
RECURSIVE ProcessingOrder(_, _)
ProcessingOrder(recs, k) ==
    IF k > Len(recs) THEN <<>>
    ELSE (IF Shape = "nobelPrizes" /\ HasList(recs[k])
          THEN [m \in 1..Len(Embedded(recs[k])) |-> <<k, m>>]
          ELSE << <<k, 0>> >>)
         \o ProcessingOrder(recs, k + 1)

\* row n of the table is the row of the record (and entry) its origin names:
\* it shows that record's identifying fields
RowIsOf(n) ==
    LET rec == Records[origin[n][1]]
        m   == origin[n][2]
    IN  IF Shape = "laureates"
        THEN "id" \in DOMAIN rec.v => frame.data[n]["laureate_id"] = rec.v["id"]
        ELSE /\ "awardYear" \in DOMAIN rec.v => frame.data[n]["year"] = rec.v["awardYear"]
             /\ (m >= 1 /\ "id" \in DOMAIN Embedded(rec)[m].v)
                    => frame.data[n]["laureate_id"] = Embedded(rec)[m].v["id"]

\* the rows of prize k, which embeds N >= 1 laureates: N rows, equal on the
\* prize-level columns, the m-th carrying the fields of the m-th entry
ExpandedRows(k) ==
    LET N == Len(Embedded(Records[k])) IN
    /\ Cardinality(RowsOf(k)) = N
    /\ \A m \in 1..N : \E n \in RowsOf(k) :
          /\ origin[n] = <<k, m>>
          /\ PrizeColumns \cup LaureateSpecific \subseteq DOMAIN frame.data[n]
          /\ \A n2 \in RowsOf(k) : \A c \in PrizeColumns :
                 frame.data[n2][c] = frame.data[n][c]
          /\ \A c \in PrizeColumns :
                 Present(Records[k], PrizeSource[c])
                    => frame.data[n][c] = Stored(Records[k], PrizeSource[c])
          /\ \A c \in LaureateSpecific :
                 Present(Embedded(Records[k])[m], EntrySource[c])
                    => frame.data[n][c] = Stored(Embedded(Records[k])[m], EntrySource[c])

\* the part of C1 about absent keys: a segment missing from the dict reached at
\* its step yields the default
C1_AbsentKeyYieldsDefault ==
    (Called /\ KeyAbsent(data, Segments)) => ret = Return(default)

\* C2: a prize record that embeds N >= 1 laureates yields exactly N rows,
\* all with the same six prize-level values, the i-th carrying laureate_id,
\* motivation and portion of the i-th embedded entry.
C2_PrizeExpandsToNRows ==
    (Terminated /\ Shape = "nobelPrizes" /\ HasRecords) =>
        \A k \in 1..Len(Records) :
            Len(Embedded(Records[k])) >= 1 => (Returned /\ ExpandedRows(k))

\* C2 on the calls that return
C2_WhenReturned ==
    (Returned /\ Shape = "nobelPrizes" /\ HasRecords) =>
        \A k \in 1..Len(Records) :
            Len(Embedded(Records[k])) >= 1 => ExpandedRows(k)

\* a laureate-specific field of row n reads as missing: nan, or no such column at all
ReadsMissing(n, c) == c \in DOMAIN frame.data[n] => frame.data[n][c] = nan

\* C3: a prize record with zero embedded laureates (no laureate list, or an
\* empty one) yields exactly one row, carrying the prize-level fields, whose
\* laureate_id, motivation and portion are the missing-value sentinel.
C3_NoLaureatesOneRow ==
    (Returned /\ Shape = "nobelPrizes" /\ HasRecords) =>
        \A k \in 1..Len(Records) :
            Len(Embedded(Records[k])) = 0 =>
                /\ Cardinality(RowsOf(k)) = 1
                /\ \A n \in RowsOf(k) :
                      /\ PrizeColumns \subseteq DOMAIN frame.data[n]
                      /\ \A c \in LaureateSpecific : ReadsMissing(n, c)

\* C3 for the prizes without the laureates key
C3_AbsentListOneRow ==
    (Returned /\ Shape = "nobelPrizes" /\ HasRecords) =>
        \A k \in 1..Len(Records) :
            ~HasList(Records[k]) =>
                /\ Cardinality(RowsOf(k)) = 1
                /\ \A n \in RowsOf(k) :
                      /\ PrizeColumns \subseteq DOMAIN frame.data[n]
                      /\ \A c \in LaureateSpecific : ReadsMissing(n, c)

\* C4: every row of a prize table has the six prize-level columns plus
\* laureate_id, motivation and portion, whether built from an embedded entry
\* or from a prize without a laureate list; every row of a laureate table has
\* the nine laureate columns.
C4_ColumnsFixedByShape ==
    Returned =>
        \A n \in 1..Len(frame.data) :
            DOMAIN frame.data[n] =
                IF Shape = "laureates" THEN LaureateColumns
                ELSE PrizeColumns \cup LaureateSpecific

\* C4 for the laureate tables
C4_LaureateColumnsFixed ==
    (Returned /\ Shape = "laureates") =>
        \A n \in 1..Len(frame.data) : DOMAIN frame.data[n] = LaureateColumns

\* C5: for a payload that is a mapping holding its records, the call does not
\* raise, whatever is absent, None or a scalar inside the records.
C5_NeverRaises == HasRecords => pc # "raised"

\* the fields of row n that were read through an absent key hold nan
AbsentKeysAreNan(n, cols) ==
    LET rec == Records[origin[n][1]]
        m   == origin[n][2]
    IN  IF Shape = "laureates"
        THEN \A c \in LaureateColumns \cap cols :
                KeyAbsent(rec, LaureateSource[c]) => frame.data[n][c] = nan
        ELSE /\ \A c \in PrizeColumns \cap cols :
                   KeyAbsent(rec, PrizeSource[c]) => frame.data[n][c] = nan
             /\ m >= 1 =>
                   \A c \in LaureateSpecific \cap cols :
                       KeyAbsent(Embedded(rec)[m], EntrySource[c]) => frame.data[n][c] = nan

AllColumns == LaureateColumns \cup PrizeColumns \cup LaureateSpecific

\* C6: every column read from a record or an embedded entry through a key
\* that is absent holds the one missing-value sentinel nan, the laureate
\* identifier columns included.
C6_AbsentKeyIsSentinel ==
    Returned => \A n \in 1..Len(frame.data) : AbsentKeysAreNan(n, AllColumns)

\* C6 for every column but laureate_id
C6_ExceptLaureateId ==
    Returned => \A n \in 1..Len(frame.data) : AbsentKeysAreNan(n, AllColumns \ {"laureate_id"})

\* C8: the returned rows are in processing order: rows of record i before
\* rows of record j for i < j, and within a prize in the order of its
\* embedded laureate list.
C8_RowsInProcessingOrder ==
    (Returned /\ HasRecords) =>
        /\ origin = ProcessingOrder(Records, 1)
        /\ Len(frame.data) = Len(origin)
        /\ \A n \in 1..Len(frame.data) : RowIsOf(n)

\* two prizes returned, the first shared by Becquerel and Pierre Curie in that order
C8_Witness ==
    /\ Returned
    /\ Shape = "nobelPrizes"
    /\ Len(Records) = 2
    /\ Embedded(Records[1]) = <<Becquerel, PierreCurie>>
    /\ Len(frame.data) >= 3
    /\ frame.data[1]["laureate_id"] = Lit("4")
    /\ frame.data[2]["laureate_id"] = Lit("5")
    /\ origin[3][1] = 2

\* C9: a mapping with neither the laureates nor the nobelPrizes key yields an
\* empty row collection and does not raise.
C9_UnrecognizedIsEmpty ==
    Shape = "none" =>
        /\ pc \in {"start", "return", "done"}
        /\ Returned => (Len(frame.data) = 0 /\ frame.columns = {})

\* returned for a mapping that has other keys only
C9_Witness ==
    /\ Returned
    /\ Shape = "none"
    /\ DOMAIN payload.v # {}
    /\ frame.data = <<>>

\* C10: a laureate collection of K records yields exactly K rows, one per
\* record, each with the nine laureate columns whichever fields the record holds.
C10_LaureatesKRows ==
    (Terminated /\ Shape = "laureates" /\ HasRecords) =>
        /\ Returned
        /\ Len(frame.data) = Len(Records)
        /\ \A n \in 1..Len(frame.data) :
              origin[n] = <<n, 0>> /\ DOMAIN frame.data[n] = LaureateColumns

\* C10 on the calls that return, with the row of the specification's example
C10_WhenReturned ==
    (Returned /\ Shape = "laureates" /\ HasRecords) =>
        /\ Len(frame.data) = Len(Records)
        /\ \A n \in 1..Len(frame.data) :
              /\ origin[n] = <<n, 0>>
              /\ DOMAIN frame.data[n] = LaureateColumns
              /\ Records[n] = Curie =>
                    /\ frame.data[n]["known_name"] = Lit("Marie Curie")
                    /\ frame.data[n]["birth_date"] = Lit("1867-11-07")
                    /\ frame.data[n]["born_city"] = Lit("Warsaw")
                    /\ frame.data[n]["gender"] = nan
                    /\ frame.data[n]["death_date"] = nan

====
